---- MODULE Spec2Model ----
(***************************************************************************)
(* Model of the query pipeline of agentProcess.py (class AgentSystem) and  *)
(* of its module-level entry points.                                       *)
(*                                                                         *)
(* Strings are sequences of tokens.  A token is one character ("a", "?",   *)
(* " ") or one of the multi-character markers that the code treats as a    *)
(* unit (a reply prefix such as "CSV_SUBQUERY:", a date such as            *)
(* "2005-03-11").  The empty string is <<>>, and Python's truth test of a  *)
(* string is "the sequence is not empty".                                  *)
(***************************************************************************)
EXTENDS Integers, Sequences, FiniteSets, TLC

----------------------------------------------------------------------------
(* Bounds of the model *)

\* lines in a coordinator reply
MaxLines == 3
\* *.csv files in the csv data directory
MaxFiles == 2
\* tokens in a keyword sub-query
MaxKwLen == 2
\* documents the text index can return when no top_k is given
MaxDocs == 7
\* AgentSystem instances that initialize_system constructs
MaxInstances == 2
\* rows by which the matches of the long csv file exceed the row cap
ExtraRows == 1
\* characters by which the long document exceeds the snippet length
ExtraChars == 1
\* documents handed to build_finance_context on its own
MaxCtxDocs == 2
\* queries submitted to the chat handler
MaxChats == 2

----------------------------------------------------------------------------
(* Configuration set in AgentSystem.__init__ *)

TOP_K_TEXT == 6
CSV_TOP_K == 100

----------------------------------------------------------------------------
(* String primitives *)

SP == " "
CR == "\r"
Whitespace == {SP, CR}

\* str.lower(): only "A" has a lower-case form among the model's tokens
LowerTok(t) == IF t = "A" THEN "a" ELSE t

Lower(s) == [i \in 1..Len(s) |-> LowerTok(s[i])]

RECURSIVE LStrip(_)
LStrip(s) ==
  IF s # <<>> /\ Head(s) \in Whitespace THEN LStrip(Tail(s)) ELSE s

RECURSIVE RStrip(_)
RStrip(s) ==
  IF s # <<>> /\ s[Len(s)] \in Whitespace
    THEN RStrip(SubSeq(s, 1, Len(s) - 1))
    ELSE s

\* str.strip()
Strip(s) == RStrip(LStrip(s))

\* str.startswith(tok) for a marker token
StartsWith(s, tok) == s # <<>> /\ Head(s) = tok

\* str.replace(tok, ""): every occurrence of the marker is removed
ReplaceAll(s, tok) == SelectSeq(s, LAMBDA t : t # tok)

Contains(s, tok) == \E i \in 1..Len(s) : s[i] = tok

Min(a, b) == IF a < b THEN a ELSE b

\* sequences over S of length at most n
SeqsUpTo(S, n) == UNION {[1..k -> S] : k \in 0..n}

None == "None"

----------------------------------------------------------------------------
(* decompose_query: the prefixes of the structured reply and its parsing *)

CSV_PREFIX == "CSV_SUBQUERY:"
FINANCE_PREFIX == "FINANCE_SUBQUERY:"

\* DecomposeLine without the .strip() calls
DecomposeLine_NoStrip(acc, line) ==
  IF StartsWith(line, CSV_PREFIX)
    THEN <<ReplaceAll(line, CSV_PREFIX), acc[2]>>
    ELSE IF StartsWith(line, FINANCE_PREFIX)
      THEN <<acc[1], ReplaceAll(line, FINANCE_PREFIX)>>
      ELSE acc

\* the body of the for loop over the reply's lines; acc = <<csv, finance>>
DecomposeLine(acc, line) ==
  IF StartsWith(line, CSV_PREFIX)
    THEN <<Strip(ReplaceAll(line, CSV_PREFIX)), acc[2]>>
    ELSE IF StartsWith(line, FINANCE_PREFIX)
      THEN <<acc[1], Strip(ReplaceAll(line, FINANCE_PREFIX))>>
      ELSE acc

RECURSIVE DecomposeLines(_, _)
DecomposeLines(acc, lines) ==
  IF lines = <<>> THEN acc
  ELSE DecomposeLines(DecomposeLine(acc, Head(lines)), Tail(lines))

\* decompose_query whose except clause returns two empty strings
decompose_query_EmptyOnFailure(query, outcome) ==
  IF outcome.kind = "text"
    THEN DecomposeLines(<<<<>>, <<>>>>, outcome.lines)
    ELSE <<<<>>, <<>>>>

\* decompose_query(query) given what team_leader.run did:
\*   [kind |-> "raise"]                 the call raised (transport, timeout)
\*   [kind |-> "nonstring"]             content is not a string (None)
\*   [kind |-> "text", lines |-> ...]   content split at "\n"
decompose_query(query, outcome) ==
  IF outcome.kind = "text"
    THEN DecomposeLines(<<<<>>, <<>>>>, outcome.lines)
    ELSE <<query, query>>

----------------------------------------------------------------------------
(* Regular expressions, as re.search evaluates the patterns that can be
   written with the model's tokens: a literal token, "." (any character),
   "?" (the preceding item is optional; "??" is its lazy form) and "(" (opens
   a group, which no token of the model can close) *)

\* number of consecutive "?" in p from position i on
RECURSIVE QRun(_, _)
QRun(p, i) == IF i <= Len(p) /\ p[i] = "?" THEN 1 + QRun(p, i + 1) ELSE 0

\* re.compile(p) succeeds: no "(" and every run of "?" follows an item and is
\* at most two long (pattern p from position i on)
RECURSIVE RegexValidFrom(_, _)
RegexValidFrom(p, i) ==
  IF i > Len(p) THEN TRUE
  ELSE /\ p[i] \notin {"(", "?"}
       /\ QRun(p, i + 1) <= 2
       /\ RegexValidFrom(p, i + 1 + QRun(p, i + 1))

RegexValid(p) == RegexValidFrom(p, 1)

\* the items [atom, opt] of a valid pattern p from position i on
RECURSIVE RegexItems(_, _)
RegexItems(p, i) ==
  IF i > Len(p) THEN <<>>
  ELSE LET q == QRun(p, i + 1)
       IN <<[atom |-> p[i], opt |-> q > 0]>> \o RegexItems(p, i + 1 + q)

\* the items from the k-th on match s at position j
RECURSIVE MatchAt(_, _, _, _)
MatchAt(items, k, s, j) ==
  IF k > Len(items) THEN TRUE
  ELSE \/ items[k].opt /\ MatchAt(items, k + 1, s, j)
       \/ /\ j <= Len(s)
          /\ items[k].atom \in {".", s[j]}
          /\ MatchAt(items, k + 1, s, j + 1)

\* re.search(p, s) is not None, for a valid pattern p
RegexSearch(p, s) ==
  LET items == RegexItems(p, 1)
  IN \E j \in 1..(Len(s) + 1) : MatchAt(items, 1, s, j)

\* s contains sub as a literal substring
IsSubstring(sub, s) ==
  \E j \in 0..(Len(s) - Len(sub)) : SubSeq(s, j + 1, j + Len(sub)) = sub

----------------------------------------------------------------------------
(* Tabular files.  A file of the csv directory is a record
     [name, readable, columns, rows]
   rows is a sequence of [bad, cells]; a bad row is a malformed line that the
   strict read rejects and the lenient read skips.  A cell is the text of the
   field; the empty field <<>> is read as NaN. *)

DIGITS == {"7"}
DATE_ISO == "2005-03-11"
DATE_SLASH == "2005/03/11"
DateToks == {DATE_ISO, DATE_SLASH}
NaT == <<"NaT">>
EPOCH == "1970-01-01"
BOOLS == {"True", "False"}

IsNa(cell) == cell = <<>>

IsNumeric(cell) == cell # <<>> /\ \A i \in 1..Len(cell) : cell[i] \in DIGITS

\* pd.read_csv(csv_file): the strict read
StrictRead(f) ==
  IF f.readable /\ \A i \in 1..Len(f.rows) : ~f.rows[i].bad
    THEN [ok |-> TRUE, columns |-> f.columns,
          rows |-> [i \in 1..Len(f.rows) |-> f.rows[i].cells]]
    ELSE [ok |-> FALSE]

\* pd.read_csv(csv_file, engine="python", on_bad_lines="skip")
LenientRead(f) ==
  IF f.readable
    THEN LET good == SelectSeq(f.rows, LAMBDA r : ~r.bad)
         IN [ok |-> TRUE, columns |-> f.columns,
             rows |-> [i \in 1..Len(good) |-> good[i].cells]]
    ELSE [ok |-> FALSE]

\* the try/except around the two reads: the lenient read is unguarded
ReadCsv(f) == IF StrictRead(f).ok THEN StrictRead(f) ELSE LenientRead(f)

\* read_csv gives a column whose every cell is True or False the dtype bool
IsBoolCol(df, c) ==
  /\ df.rows # <<>>
  /\ \A i \in 1..Len(df.rows) :
       Len(df.rows[i][c]) = 1 /\ df.rows[i][c][1] \in BOOLS

\* df[col].dtype == object
IsObjectCol(df, c) ==
  \/ df.rows = <<>>
  \/ /\ ~IsBoolCol(df, c)
     /\ \E i \in 1..Len(df.rows) :
          ~IsNa(df.rows[i][c]) /\ ~IsNumeric(df.rows[i][c])

\* pd.to_datetime(df[col], errors="coerce") raises TypeError on a bool
\* column: the except clause of the loop body passes over that column
DateParseRaises(df, c) == IsBoolCol(df, c)

\* str(pd.to_datetime(cell, errors="coerce"))
ParsedDateStr(df, c, cell) ==
  IF IsNa(cell) THEN NaT
  ELSE IF ~IsObjectCol(df, c) THEN <<EPOCH, SP, "00:00:00.00000000">> \o cell
  ELSE IF Len(cell) = 1 /\ cell[1] \in DateToks THEN <<DATE_ISO>>
  ELSE NaT

\* re.search(r"(\d{4}[-/]\d{2}[-/]\d{2})", query): the first date in the query
RECURSIVE DateLike(_)
DateLike(query) ==
  IF query = <<>> THEN None
  ELSE IF Head(query) \in DateToks \cup {EPOCH} THEN Head(query)
  ELSE DateLike(Tail(query))

\* the indices of 1..n that the boolean mask selects, in increasing order
MaskIdx(n, mask) == SelectSeq([i \in 1..n |-> i], LAMBDA i : i \in mask)

\* date mode without the break: every column's mask is OR-ed in
DateMatch_AllColumns(df, date_like, c) ==
  MaskIdx(Len(df.rows),
          {i \in 1..Len(df.rows) :
             \E k \in c..Len(df.columns) :
               /\ ~DateParseRaises(df, k)
               /\ RegexSearch(<<date_like>>, ParsedDateStr(df, k, df.rows[i][k]))})

\* date mode: the rows selected by the first column whose parsed values
\* contain the date (the loop over df.columns with its break); a column on
\* which to_datetime raises is passed over
RECURSIVE DateMatch(_, _, _)
DateMatch(df, date_like, c) ==
  IF c > Len(df.columns) THEN <<>>
  ELSE IF DateParseRaises(df, c) THEN DateMatch(df, date_like, c + 1)
  ELSE LET mask == {i \in 1..Len(df.rows) :
                      RegexSearch(<<date_like>>, ParsedDateStr(df, c, df.rows[i][c]))}
           idx == MaskIdx(Len(df.rows), mask)
       IN IF idx # <<>> THEN idx ELSE DateMatch(df, date_like, c + 1)

\* df[col].str.lower().str.contains(kw, na=False) for row i
ColContains(df, c, kw, i) ==
  ~IsNa(df.rows[i][c]) /\ RegexSearch(kw, Lower(df.rows[i][c]))

ObjectCols(df) == {c \in 1..Len(df.columns) : IsObjectCol(df, c)}

\* keyword mode: the OR of the masks of the object columns
KeywordMatch(df, kw) ==
  LET combined == {i \in 1..Len(df.rows) :
                     \E c \in ObjectCols(df) : ColContains(df, c, kw, i)}
  IN MaskIdx(Len(df.rows), combined)

\* str.contains compiles kw once per object column: re.error is raised when
\* kw is no valid pattern
KeywordRaises(df, kw) == ObjectCols(df) # {} /\ ~RegexValid(kw)

\* head() taking one row too many
HeadRows_OffByOne(idx, n) == SubSeq(idx, 1, Min(Len(idx), n + 1))

\* matched.head(CSV_TOP_K)
HeadRows(idx, n) == SubSeq(idx, 1, Min(Len(idx), n))

\* the rows of df at the indices idx, each with its index label
TakeRows(df, idx) == [k \in 1..Len(idx) |-> [idx |-> idx[k], cells |-> df.rows[idx[k]]]]

\* one iteration of the loop over the csv files, from the mapping built so
\* far: [raised, matches]
MatchFile(matches, f, query) ==
  LET df == ReadCsv(f)
      date_like == DateLike(query)
      kw == Lower(query)
  IN IF ~df.ok THEN [raised |-> TRUE, matches |-> <<>>]
     ELSE IF date_like = None /\ KeywordRaises(df, kw)
       THEN [raised |-> TRUE, matches |-> <<>>]
     ELSE LET matched == IF date_like # None
                           THEN DateMatch(df, date_like, 1)
                           ELSE KeywordMatch(df, kw)
          IN [raised |-> FALSE,
              matches |->
                IF matched # <<>>
                  THEN Append(matches,
                              [fname |-> f.name, columns |-> df.columns,
                               rows |-> TakeRows(df, HeadRows(matched, CSV_TOP_K))])
                  ELSE matches]

RECURSIVE MatchFiles(_, _, _)
MatchFiles(matches, files, query) ==
  IF files = <<>> THEN [raised |-> FALSE, matches |-> matches]
  ELSE LET m == MatchFile(matches, Head(files), query)
       IN IF m.raised THEN m ELSE MatchFiles(m.matches, Tail(files), query)

\* retrieve_csv_rows(query) over the files glob lists: [raised, matches],
\* matches being the mapping as the sequence of its entries in insertion order
retrieve_csv_rows(files, query) == MatchFiles(<<>>, files, query)

----------------------------------------------------------------------------
(* Context builders *)

NL == "\n"
SNIPPET_CHARS == 800
PREVIEW_ROWS == 10

RECURSIVE Join(_, _)
Join(parts, sep) ==
  IF parts = <<>> THEN <<>>
  ELSE IF Len(parts) = 1 THEN parts[1]
  ELSE parts[1] \o sep \o Join(Tail(parts), sep)

\* the whole text, its newlines replaced
Snippet_Uncut(txt) == [i \in 1..Len(txt) |-> IF txt[i] = NL THEN SP ELSE txt[i]]

\* txt[:800].replace("\n", " ")
Snippet(txt) ==
  LET cut == SubSeq(txt, 1, Min(Len(txt), SNIPPET_CHARS))
  IN [i \in 1..Len(cut) |-> IF cut[i] = NL THEN SP ELSE cut[i]]

\* d.metadata.get("source", f"doc_{i}"), i counting from 0
SourceName(d, i) == IF d.source = None THEN "doc_" \o ToString(i) ELSE d.source

\* build_finance_context(docs)
build_finance_context(docs) ==
  Join([i \in 1..Len(docs) |->
          <<"[source: ", SourceName(docs[i], i - 1), "] ">> \o Snippet(docs[i].text)],
       <<NL, NL>>)

\* one line of DataFrame.to_csv(index=False): the fields joined by ","
CsvLine(cells) == Join(cells, <<",">>) \o <<NL>>

RECURSIVE Concat(_)
Concat(seqs) == IF seqs = <<>> THEN <<>> ELSE Head(seqs) \o Concat(Tail(seqs))

\* df.head(10).to_csv(index=False)
Preview(entry) ==
  LET head == SubSeq(entry.rows, 1, Min(Len(entry.rows), PREVIEW_ROWS))
  IN CsvLine([c \in 1..Len(entry.columns) |-> <<entry.columns[c]>>])
       \o Concat([k \in 1..Len(head) |-> CsvLine(head[k].cells)])

\* build_csv_context(matches)
build_csv_context(matches) ==
  Join([k \in 1..Len(matches) |->
          <<"[CSV: ", matches[k].fname, "]", NL, "Columns: ">>
            \o Join([c \in 1..Len(matches[k].columns) |-> <<matches[k].columns[c]>>],
                    <<", ">>)
            \o <<NL, "Preview:", NL>> \o Preview(matches[k])],
       <<NL, NL>>)

----------------------------------------------------------------------------
(* process_query: its decisions *)

\* str(e) of the exceptions that can reach the except clause
CSV_EXC == "csv read or match failed"
FINANCE_AGENT_EXC == "finance agent failed"
CSV_AGENT_EXC == "csv agent failed"
COLLATE_EXC == "collation failed"

\* the sub-query used as it is, without the fallback
SubqueryOrQuery_NoFallback(sub, query) == sub

\* "<sub> if <sub> else query"
SubqueryOrQuery(sub, query) == IF sub # <<>> THEN sub ELSE query

\* the guard with "or" in place of "and"
NoEvidence_EitherEmpty(finance_hits_, csv_hits_) ==
  finance_hits_ = <<>> \/ csv_hits_ = <<>>

\* the guard with its second "not" dropped
NoEvidence_DroppedNot(finance_hits_, csv_hits_) ==
  finance_hits_ = <<>> /\ csv_hits_ # <<>>

\* "if not finance_hits and not csv_hits"
NoEvidence(finance_hits_, csv_hits_) == finance_hits_ = <<>> /\ csv_hits_ = <<>>

NOT_INITIALIZED ==
  [kind |-> "error",
   error |-> <<"Error: Agent system not initialized. Please run setup first.">>]

NO_EVIDENCE == [kind |-> "error", error |-> <<"No information found in knowledge bases.">>]

\* an except clause that reports a fixed text
CaughtError_NoDescription(e) == [kind |-> "error", error |-> <<"Error processing query">>]

\* the except clause of process_query
CaughtError(e) == [kind |-> "error", error |-> <<"Error processing query: ", e>>]

\* the collation prompt
CollatePrompt(q, c_txt_, f_txt_) ==
  <<"You are the Team Leader. Collate the responses from both agents to answer the original query.",
    NL, NL, "Original Query: ">> \o q
    \o <<NL, NL, "CSV Agent Response:", NL>> \o c_txt_
    \o <<NL, NL, "Finance Agent Response:", NL>> \o f_txt_
    \o <<NL, NL, "Now synthesize these into a complete, coherent answer that combines both data and sentiment/analysis insights.">>

\* retrieve_finance_docs giving up after the first failure
AfterRankedFailure_NoRetry == "retrieve_csv"

\* retrieve_finance_docs: where it goes when the search with top_k raised
AfterRankedFailure == "retrieve_finance_fallback"

\* retrieve_finance_docs: what it returns when the search without top_k raised
AfterUnrankedFailure == <<>>

\* the i-th document of the text index
KbDoc(i) ==
  [source |-> IF i % 2 = 1 THEN "report.txt" ELSE "notes.txt",
   text |-> <<"risk", NL, "management">>]

\* the documents a search returns when it returns n of them
Docs(n) == [i \in 1..n |-> KbDoc(i)]

----------------------------------------------------------------------------
(* State *)

VARIABLES
  \* -- decompose_query on its own: the reply being parsed
  p_query,      \* the original query handed to decompose_query
  p_lines,      \* the lines of the coordinator's reply
  p_outcome,    \* what team_leader.run did: None, "text", "raise", "nonstring"
  p_result,     \* <<>>, or the pair <<csv_subquery, finance_subquery>> returned
  \* -- the csv data directory and retrieve_csv_rows on its own
  csv_files,    \* the *.csv files of csv_data_dir, in the order glob lists them
  x_query,      \* the sub-query handed to retrieve_csv_rows
  x_called,     \* retrieve_csv_rows has run
  x_result,     \* what it did: [raised, matches]
  \* -- the process: environment, AgentSystem instances, the module global
  api_key,      \* GOOGLE_API_KEY is set in the environment
  instances,    \* the AgentSystem instances constructed so far, by identity
  agent_system, \* the global _agent_system: 0 for None, else an identity
  setup_pc,     \* where the latest initialize_system stands: "none",
                \* "constructed", "running", "ready", "failed", "raised"
  setup_of,     \* the instance setup() was called on (its self), 0 before
  \* -- one run of ask_agents / process_query
  pc,           \* its position
  system,       \* the instance get_agent_system returned (self), 0 before
  query,        \* its argument
  decompose_outcome,  \* what the decomposition call did; [kind |-> "none"] before
  csv_subquery,
  finance_subquery,
  finance_hits,
  csv_hits,
  finance_context,
  csv_context,
  f_txt,
  c_txt,
  exc,          \* the exception that reached the except clause, or None
  result,       \* what process_query returned; [kind |-> "none"] before
  calls,        \* the collaborator calls of this run, in order
  \* -- the chat handler process_query(query, history) of chatUI
  chatbot,      \* the value of the Chatbot component: the last history emitted
  h_pc,         \* position of the handler
  h_query,      \* its query argument
  history,      \* its history argument, the list it appends to
  h_len,        \* the length of history when the handler was invoked
  h_i,          \* the loop variable i of the animation
  h_yields,     \* the number of histories this invocation has yielded
  \* -- the context builders on their own
  b_docs,       \* the documents handed to build_finance_context
  b_matches,    \* the mapping handed to build_csv_context
  b_built,      \* which of the two builders have run
  b_finance_context,
  b_csv_context

parseVars == <<p_query, p_lines, p_outcome, p_result>>

csvVars == <<x_query, x_called, x_result>>

sysVars == <<api_key, instances, agent_system, setup_pc, setup_of>>

runVars ==
  <<pc, system, query, decompose_outcome, csv_subquery, finance_subquery, finance_hits,
    csv_hits, finance_context, csv_context, f_txt, c_txt, exc, result, calls>>

chatVars == <<chatbot, h_pc, h_query, history, h_len, h_i, h_yields>>

ctxVars == <<b_docs, b_matches, b_built, b_finance_context, b_csv_context>>

vars == <<parseVars, csv_files, csvVars, sysVars, runVars, chatVars, ctxVars>>

\* what an action leaves alone: every group of variables but its own
OthersFrame(own) ==
  /\ own # "parse" => UNCHANGED parseVars
  /\ own # "csv" => UNCHANGED <<csv_files, csvVars>>
  /\ own # "sys" => UNCHANGED sysVars
  /\ own # "run" => UNCHANGED runVars
  /\ own # "chat" => UNCHANGED chatVars
  /\ own # "ctx" => UNCHANGED ctxVars

Range(seq) == {seq[i] : i \in 1..Len(seq)}

\* decompose_query is not running
ParseIdle ==
  /\ p_query = <<>>
  /\ p_lines = <<>>
  /\ p_outcome = None
  /\ p_result = <<>>

\* retrieve_csv_rows is not running on its own
CsvIdle ==
  /\ x_query = <<>>
  /\ x_called = FALSE
  /\ x_result = [raised |-> FALSE, matches |-> <<>>]

FINANCE_DATA_DIR == "financeAgent/data"
CSV_DATA_DIR == "csvAgent/data"

\* an AgentSystem as __init__ leaves it
NewInstance ==
  [finance_data_dir |-> FINANCE_DATA_DIR,
   csv_data_dir |-> CSV_DATA_DIR,
   finance_kb |-> None,
   csv_kb |-> None,
   finance_agent |-> None,
   csv_agent |-> None,
   team_leader |-> None,
   TOP_K_TEXT |-> TOP_K_TEXT,
   CSV_TOP_K |-> CSV_TOP_K]

\* the module agentProcess as the import leaves it: _agent_system = None
SysNew ==
  /\ instances = <<>>
  /\ agent_system = 0
  /\ setup_pc = "none"
  /\ setup_of = 0

\* initialize_system has constructed the instance and assigned the global,
\* and is about to call setup()
SysConstructed ==
  /\ api_key = TRUE
  /\ instances = <<NewInstance>>
  /\ agent_system = 1
  /\ setup_pc = "constructed"
  /\ setup_of = 0

\* the chat handler has not been invoked and the chat is empty
ChatIdle ==
  /\ chatbot = <<>>
  /\ h_pc = "idle"
  /\ h_query = <<>>
  /\ history = <<>>
  /\ h_len = 0
  /\ h_i = 0
  /\ h_yields = 0

\* the context builders are not running on their own
CtxIdle ==
  /\ b_docs = <<>>
  /\ b_matches = <<>>
  /\ b_built = {}
  /\ b_finance_context = <<>>
  /\ b_csv_context = <<>>

\* the local variables of process_query before its first step
RunFresh(pc_, query_) ==
  /\ pc = pc_
  /\ system = 0
  /\ query = query_
  /\ decompose_outcome = [kind |-> "none"]
  /\ csv_subquery = <<>>
  /\ finance_subquery = <<>>
  /\ finance_hits = <<>>
  /\ csv_hits = <<>>
  /\ finance_context = <<>>
  /\ csv_context = <<>>
  /\ f_txt = <<>>
  /\ c_txt = <<>>
  /\ exc = None
  /\ result = [kind |-> "none"]
  /\ calls = <<>>

\* no process_query has been called
RunIdle == RunFresh("idle", <<>>)

----------------------------------------------------------------------------
(* Specification SpecParse: decompose_query applied to every reply that the
   coordinator can compose out of ReplyLines *)

X_TOK == "x"
Y_TOK == "y"
TABULAR_PREFIX == "TABULAR_SUBQUERY:"
TEXT_PREFIX == "TEXT_SUBQUERY:"

ReplyLines ==
  { <<CSV_PREFIX, SP, X_TOK>>,
    <<FINANCE_PREFIX, SP, Y_TOK>>,
    <<TABULAR_PREFIX, SP, X_TOK>>,
    <<TEXT_PREFIX, SP, Y_TOK>>,
    <<"noise">>,
    <<>>,
    <<SP, CSV_PREFIX, SP, X_TOK>>,
    <<CSV_PREFIX, SP, X_TOK, SP, CSV_PREFIX>>,
    <<CSV_PREFIX, SP, Y_TOK>>,
    <<FINANCE_PREFIX, SP, Y_TOK, CR>>,
    <<CSV_PREFIX>>,
    <<FINANCE_PREFIX, SP, CSV_PREFIX, SP, X_TOK>> }

ParseQueries == { <<"q">>, <<"q", "?">> }

InitParse ==
  /\ p_query \in ParseQueries
  /\ p_lines = <<>>
  /\ p_outcome = None
  /\ p_result = <<>>
  /\ csv_files = <<>>
  /\ CsvIdle
  /\ api_key = TRUE
  /\ SysNew
  /\ ChatIdle
  /\ CtxIdle
  /\ RunIdle

\* the coordinator writes one more line of its reply
ReplyLine(l) ==
  /\ p_outcome = None
  /\ Len(p_lines) < MaxLines
  /\ p_lines' = Append(p_lines, l)
  /\ UNCHANGED <<p_query, p_outcome, p_result, csv_files, csvVars, sysVars, runVars, chatVars, ctxVars>>

\* team_leader.run returns the composed text and decompose_query parses it
DecomposeText ==
  /\ p_outcome = None
  /\ p_lines # <<>>
  /\ p_outcome' = "text"
  /\ p_result' = decompose_query(p_query, [kind |-> "text", lines |-> p_lines])
  /\ UNCHANGED <<p_query, p_lines, csv_files, csvVars, sysVars, runVars, chatVars, ctxVars>>

\* team_leader.run raises, or returns something whose content is no string
DecomposeFail(kind) ==
  /\ p_outcome = None
  /\ p_outcome' = kind
  /\ p_result' = decompose_query(p_query, [kind |-> kind])
  /\ UNCHANGED <<p_query, p_lines, csv_files, csvVars, sysVars, runVars, chatVars, ctxVars>>

NextParse ==
  \/ \E l \in ReplyLines : ReplyLine(l)
  \/ DecomposeText
  \/ \E kind \in {"raise", "nonstring"} : DecomposeFail(kind)

SpecParse == InitParse /\ [][NextParse]_vars

----------------------------------------------------------------------------
(* Specification SpecCsv: retrieve_csv_rows applied to every directory of at
   most MaxFiles of the files below and to every sub-query of CsvQueries *)

Row(cells) == [bad |-> FALSE, cells |-> cells]
BadRow(cells) == [bad |-> TRUE, cells |-> cells]

\* rows of the long file: more than CSV_TOP_K rows hold "a"; the first does not
LongRows == CSV_TOP_K + ExtraRows + 1

F_text ==
  [name |-> "text.csv", readable |-> TRUE, columns |-> <<"text">>,
   rows |-> << Row(<< <<"a", "b">> >>), Row(<< <<"A">> >>), Row(<< <<"b">> >>),
               Row(<< <<>> >>), Row(<< <<".">> >>), Row(<< <<"a", "?">> >>) >>]

F_mixed ==
  [name |-> "mixed.csv", readable |-> TRUE, columns |-> <<"num", "text", "note">>,
   rows |-> << Row(<< <<"7">>, <<"b">>, <<"a">> >>),
               Row(<< <<"7">>, <<>>, <<"b">> >>),
               Row(<< <<>>, <<"A", "b">>, <<"b">> >>),
               Row(<< <<"7">>, <<>>, <<>> >>) >>]

F_bad ==
  [name |-> "bad.csv", readable |-> FALSE, columns |-> <<>>, rows |-> <<>>]

F_lenient ==
  [name |-> "lenient.csv", readable |-> TRUE, columns |-> <<"text">>,
   rows |-> << Row(<< <<"a">> >>), BadRow(<< <<"a">>, <<"a">> >>), Row(<< <<"b">> >>) >>]

F_long ==
  [name |-> "long.csv", readable |-> TRUE, columns |-> <<"text">>,
   rows |-> [i \in 1..LongRows |-> Row(<< IF i = 1 THEN <<"b">> ELSE <<"a">> >>)]]

F_empty ==
  [name |-> "empty.csv", readable |-> TRUE, columns |-> <<"text">>, rows |-> <<>>]

F_dates ==
  [name |-> "dates.csv", readable |-> TRUE,
   columns |-> <<"flag", "text", "date", "date2">>,
   rows |-> << Row(<< <<"True">>, <<"a">>, <<DATE_ISO>>, <<"b">> >>),
               Row(<< <<"False">>, <<"b">>, <<DATE_SLASH>>, <<"b">> >>),
               Row(<< <<"True">>, <<DATE_ISO>>, <<"b">>, <<DATE_ISO>> >>),
               Row(<< <<"True">>, <<"b">>, <<"b">>, <<DATE_ISO>> >>) >>]

CsvFiles == {F_text, F_mixed, F_bad, F_lenient, F_long, F_empty, F_dates}

KwChars == {"a", "A", ".", "?", "("}

DateQueries == { <<DATE_ISO>>, <<"a", DATE_ISO>>, <<DATE_SLASH>> }

CsvQueries == SeqsUpTo(KwChars, MaxKwLen) \cup DateQueries

InitCsv ==
  /\ ParseIdle
  /\ csv_files = <<>>
  /\ CsvIdle
  /\ api_key = TRUE
  /\ SysNew
  /\ ChatIdle
  /\ CtxIdle
  /\ RunIdle

\* a file is put into the csv data directory
AddCsvFile(f) ==
  /\ ~x_called
  /\ Len(csv_files) < MaxFiles
  /\ f \notin Range(csv_files)
  /\ csv_files' = Append(csv_files, f)
  /\ UNCHANGED <<parseVars, csvVars, sysVars, runVars, chatVars, ctxVars>>

\* retrieve_csv_rows(q) runs over the directory
RetrieveCsv(q) ==
  /\ ~x_called
  /\ x_called' = TRUE
  /\ x_query' = q
  /\ x_result' = retrieve_csv_rows(csv_files, q)
  /\ UNCHANGED <<parseVars, csv_files, sysVars, runVars, chatVars, ctxVars>>

NextCsv ==
  \/ \E f \in CsvFiles : AddCsvFile(f)
  \/ \E q \in CsvQueries : RetrieveCsv(q)

SpecCsv == InitCsv /\ [][NextCsv]_vars

----------------------------------------------------------------------------
(* Specification SpecCtx: the two context builders applied to documents and
   mappings of every size around their limits *)

\* a text of n characters: newlines at 3 and at every multiple of 400, "Z"
\* past the snippet length and "x" elsewhere
TextOf(n) ==
  [i \in 1..n |-> IF i = 3 \/ i % 400 = 0 THEN NL
                  ELSE IF i > SNIPPET_CHARS THEN "Z" ELSE "x"]

\* the documents a search can return: short, of exactly the snippet length,
\* longer, empty, and without a source in the metadata
CtxDocs ==
  { KbDoc(1),
    [source |-> "exact.txt", text |-> TextOf(SNIPPET_CHARS)],
    [source |-> "long.txt", text |-> TextOf(SNIPPET_CHARS + ExtraChars)],
    [source |-> "empty.txt", text |-> <<>>],
    [source |-> None, text |-> <<"x", NL>>] }

\* the matched rows of one file, n of them: the rows past the preview hold "later"
CtxEntry(fname, n) ==
  [fname |-> fname, columns |-> <<"num", "text">>,
   rows |-> [i \in 1..n |->
               [idx |-> i,
                cells |-> << <<"7">>,
                             <<IF i <= PREVIEW_ROWS THEN "first" ELSE "later">> >>]]]

CtxRowCounts == {1, PREVIEW_ROWS, PREVIEW_ROWS + ExtraRows}

\* the mappings retrieve_csv_rows can return: every entry has a row, and no
\* two entries share a file name
CtxMatches ==
  {<<>>}
    \cup {<<CtxEntry("long.csv", n)>> : n \in CtxRowCounts}
    \cup {<<CtxEntry("text.csv", n)>> : n \in CtxRowCounts}
    \cup {<<CtxEntry("long.csv", n), CtxEntry("text.csv", m)>> :
            n \in CtxRowCounts, m \in CtxRowCounts}

InitCtx ==
  /\ ParseIdle
  /\ csv_files = <<>>
  /\ CsvIdle
  /\ api_key = TRUE
  /\ SysNew
  /\ ChatIdle
  /\ RunIdle
  /\ b_docs \in SeqsUpTo(CtxDocs, MaxCtxDocs)
  /\ b_matches \in CtxMatches
  /\ b_built = {}
  /\ b_finance_context = <<>>
  /\ b_csv_context = <<>>

BuildFinanceContext ==
  /\ "finance" \notin b_built
  /\ b_finance_context' = build_finance_context(b_docs)
  /\ b_built' = b_built \cup {"finance"}
  /\ UNCHANGED <<b_docs, b_matches, b_csv_context>>
  /\ OthersFrame("ctx")

BuildCsvContext ==
  /\ "csv" \notin b_built
  /\ b_csv_context' = build_csv_context(b_matches)
  /\ b_built' = b_built \cup {"csv"}
  /\ UNCHANGED <<b_docs, b_matches, b_finance_context>>
  /\ OthersFrame("ctx")

NextCtx == BuildFinanceContext \/ BuildCsvContext

SpecCtx == InitCtx /\ [][NextCtx]_vars

----------------------------------------------------------------------------
(* Specification Spec: setup() and process_query on the AgentSystem that
   initialize_system has constructed *)

\* the queries put to process_query
Queries == { <<"a">>, <<"z">>, <<"(">>, <<>> }

\* the replies of the coordinator to the decomposition prompt
Replies ==
  { << <<CSV_PREFIX, SP, "a">>, <<FINANCE_PREFIX, SP, "y">> >>,
    << <<CSV_PREFIX, SP, "z">> >>,
    << <<"noise">>, <<FINANCE_PREFIX, SP, "y">> >>,
    << <<"noise">> >> }

DecomposeOutcomes ==
  {[kind |-> "raise"], [kind |-> "nonstring"]}
    \cup {[kind |-> "text", lines |-> r] : r \in Replies}

\* the csv data directories process_query is run against
Directories ==
  { <<>>, <<F_text>>, <<F_empty>>, <<F_bad, F_text>>, <<F_text, F_bad>>,
    <<F_long, F_mixed>> }

Init ==
  /\ ParseIdle
  /\ csv_files \in Directories
  /\ CsvIdle
  /\ SysConstructed
  /\ ChatIdle
  /\ CtxIdle
  /\ RunIdle

(* initialize_system: the constructor, the global, then setup() *)

\* str(e) of the ValueError that __init__ raises without an API key
API_KEY_EXC == "GOOGLE_API_KEY not found in environment variables."

\* setup() assigns field f of its instance
SetField(f, v) ==
  /\ instances' = [instances EXCEPT ![setup_of][f] = v]
  /\ UNCHANGED <<api_key, agent_system, setup_of>>

\* an initialize_system that keeps the instance the global already names
InitializeSystem_KeepsGlobal ==
  /\ setup_pc \notin {"constructed", "running"}
  /\ Len(instances) < MaxInstances
  /\ IF api_key
       THEN /\ instances' = Append(instances, NewInstance)
            /\ agent_system' = IF agent_system = 0 THEN Len(instances) + 1 ELSE agent_system
            /\ setup_pc' = "constructed"
       ELSE /\ setup_pc' = "raised"
            /\ UNCHANGED <<instances, agent_system>>
  /\ UNCHANGED <<api_key, setup_of>>
  /\ OthersFrame("sys")

\* "_agent_system = AgentSystem(finance_dir, csv_dir)": the global is assigned
\* before setup() is called; without an API key the constructor raises and
\* the global keeps its value
InitializeSystem ==
  /\ setup_pc \notin {"constructed", "running"}
  /\ Len(instances) < MaxInstances
  /\ IF api_key
       THEN /\ instances' = Append(instances, NewInstance)
            /\ agent_system' = Len(instances) + 1
            /\ setup_pc' = "constructed"
       ELSE /\ setup_pc' = "raised"
            /\ UNCHANGED <<instances, agent_system>>
  /\ UNCHANGED <<api_key, setup_of>>
  /\ OthersFrame("sys")

\* "return _agent_system.setup()": the global is read again
CallSetup ==
  /\ setup_pc = "constructed"
  /\ setup_of' = agent_system
  /\ setup_pc' = "running"
  /\ UNCHANGED <<api_key, instances, agent_system>>
  /\ OthersFrame("sys")

CreateFinanceKb ==
  /\ setup_pc = "running" /\ instances[setup_of].finance_kb = None
  /\ SetField("finance_kb", "created")
  /\ UNCHANGED setup_pc
  /\ OthersFrame("sys")

\* the loop over the text files: a file that fails is skipped
LoadFinanceDocs ==
  /\ setup_pc = "running" /\ instances[setup_of].finance_kb = "created"
  /\ SetField("finance_kb", "loaded")
  /\ UNCHANGED setup_pc
  /\ OthersFrame("sys")

CreateCsvKb ==
  /\ setup_pc = "running"
  /\ instances[setup_of].finance_kb = "loaded" /\ instances[setup_of].csv_kb = None
  /\ SetField("csv_kb", "created")
  /\ UNCHANGED setup_pc
  /\ OthersFrame("sys")

\* the loop over the csv files: a file that fails is skipped
LoadCsvDocs ==
  /\ setup_pc = "running" /\ instances[setup_of].csv_kb = "created"
  /\ SetField("csv_kb", "loaded")
  /\ UNCHANGED setup_pc
  /\ OthersFrame("sys")

CreateFinanceAgent ==
  /\ setup_pc = "running"
  /\ instances[setup_of].csv_kb = "loaded" /\ instances[setup_of].finance_agent = None
  /\ SetField("finance_agent", "set")
  /\ UNCHANGED setup_pc
  /\ OthersFrame("sys")

CreateCsvAgent ==
  /\ setup_pc = "running"
  /\ instances[setup_of].finance_agent = "set" /\ instances[setup_of].csv_agent = None
  /\ SetField("csv_agent", "set")
  /\ UNCHANGED setup_pc
  /\ OthersFrame("sys")

\* a setup() that creates the team leader before anything else
BeforeTeamLeader_First(inst) == inst.team_leader = None

\* initialize_agents creates the team leader last, after initialize_knowledge_bases
BeforeTeamLeader(inst) == inst.csv_agent = "set" /\ inst.team_leader = None

CreateTeamLeader ==
  /\ setup_pc = "running" /\ BeforeTeamLeader(instances[setup_of])
  /\ SetField("team_leader", "set")
  /\ UNCHANGED setup_pc
  /\ OthersFrame("sys")

\* setup() prints its summary and returns True
SetupReturns ==
  /\ setup_pc = "running" /\ instances[setup_of].team_leader = "set"
  /\ setup_pc' = "ready"
  /\ UNCHANGED <<api_key, instances, agent_system, setup_of>>
  /\ OthersFrame("sys")

\* a statement of the try block raises (a constructor, a load, a print):
\* setup() catches it and returns False, the fields assigned so far stay
SetupRaises ==
  /\ setup_pc = "running"
  /\ setup_pc' = "failed"
  /\ UNCHANGED <<api_key, instances, agent_system, setup_of>>
  /\ OthersFrame("sys")

(* ask_agents: get_agent_system, then process_query *)

Call(c) == calls' = Append(calls, c)

\* a return that falls through to the collation step
Return_FallsThrough(res, e) ==
  /\ pc' = "collate"
  /\ result' = res
  /\ exc' = e

\* an except clause that raises the exception again
Return_Reraises(res, e) ==
  /\ pc' = IF e = None THEN "returned" ELSE "raised"
  /\ result' = res
  /\ exc' = e

\* process_query returns res; e is the exception the except clause caught
Return(res, e) ==
  /\ pc' = "returned"
  /\ result' = res
  /\ exc' = e

\* a process_query that caches on its instance
AfterStep_Caches(inst) == [inst EXCEPT !.TOP_K_TEXT = @ + 1]

\* process_query and the methods it calls assign no attribute of self: the
\* instance after one of their steps
AfterStep(inst) == inst

\* what a step of process_query leaves of everything that is not its local state
StepFrame ==
  /\ instances' = [instances EXCEPT ![system] = AfterStep(@)]
  /\ UNCHANGED <<api_key, agent_system, setup_pc, setup_of>>
  /\ UNCHANGED <<parseVars, csv_files, csvVars, chatVars, ctxVars>>

\* ask_agents(q) is called: "if _agent_system is None" in get_agent_system
AskAgentsCall(q) ==
  /\ pc \in {"idle", "returned", "raised"}
  /\ query' = q
  /\ system' = 0
  /\ decompose_outcome' = [kind |-> "none"]
  /\ csv_subquery' = <<>>
  /\ finance_subquery' = <<>>
  /\ finance_hits' = <<>>
  /\ csv_hits' = <<>>
  /\ finance_context' = <<>>
  /\ csv_context' = <<>>
  /\ f_txt' = <<>>
  /\ c_txt' = <<>>
  /\ calls' = <<>>
  /\ result' = [kind |-> "none"]
  /\ exc' = None
  /\ pc' = IF agent_system = 0 THEN "get_create" ELSE "get_return"
  /\ UNCHANGED <<parseVars, csv_files, csvVars, sysVars, ctxVars>>

\* ask_agents called by a caller other than the chat handler
AskAgents(q) == AskAgentsCall(q) /\ UNCHANGED chatVars

\* "_agent_system = AgentSystem()" in get_agent_system: the ValueError of the
\* constructor leaves ask_agents
GetCreate ==
  /\ pc = "get_create"
  /\ IF api_key
       THEN /\ instances' = Append(instances, NewInstance)
            /\ agent_system' = Len(instances) + 1
            /\ pc' = "get_return"
            /\ UNCHANGED exc
       ELSE /\ pc' = "raised"
            /\ exc' = API_KEY_EXC
            /\ UNCHANGED <<instances, agent_system>>
  /\ UNCHANGED <<api_key, setup_pc, setup_of>>
  /\ UNCHANGED <<system, query, decompose_outcome, csv_subquery, finance_subquery,
                 finance_hits, csv_hits, finance_context, csv_context, f_txt,
                 c_txt, result, calls>>
  /\ UNCHANGED <<parseVars, csv_files, csvVars, chatVars, ctxVars>>

\* a guard that looks at the first agent setup() creates
Initialized_FirstAgent(inst) == inst.finance_agent # None

\* the negation of "if not self.team_leader"
Initialized(inst) == inst.team_leader # None

\* "return _agent_system", then process_query(query) on it: the guard on
\* team_leader
ProcessQuery ==
  /\ pc = "get_return"
  /\ system' = agent_system
  /\ IF ~Initialized(instances[agent_system])
       THEN Return(NOT_INITIALIZED, None)
       ELSE /\ pc' = "decompose"
            /\ UNCHANGED <<result, exc>>
  /\ UNCHANGED <<query, decompose_outcome, csv_subquery, finance_subquery,
                 finance_hits, csv_hits, finance_context, csv_context, f_txt,
                 c_txt, calls>>
  /\ UNCHANGED <<parseVars, csv_files, csvVars, sysVars, chatVars, ctxVars>>

\* STEP 1: decompose_query(query)
Decompose(outcome) ==
  /\ pc = "decompose"
  /\ Call([to |-> "team_leader", kind |-> "decompose", query |-> query,
           raised |-> outcome.kind = "raise"])
  /\ decompose_outcome' = outcome
  /\ csv_subquery' = decompose_query(query, outcome)[1]
  /\ finance_subquery' = decompose_query(query, outcome)[2]
  /\ pc' = "retrieve_finance"
  /\ UNCHANGED <<system, query, finance_hits, csv_hits, finance_context, csv_context,
                 f_txt, c_txt, exc, result>>
  /\ StepFrame

\* STEP 2: retrieve_finance_docs, the search with top_k returns n documents
SearchRanked(n) ==
  /\ pc = "retrieve_finance"
  /\ n <= instances[system].TOP_K_TEXT
  /\ Call([to |-> "finance_kb", kind |-> "search_top_k",
           query |-> SubqueryOrQuery(finance_subquery, query),
           raised |-> FALSE])
  /\ finance_hits' = Docs(n)
  /\ pc' = "retrieve_csv"
  /\ UNCHANGED <<system, query, decompose_outcome, csv_subquery, finance_subquery, csv_hits,
                 finance_context, csv_context, f_txt, c_txt, exc, result>>
  /\ StepFrame

\* the search with top_k raises
SearchRankedRaises ==
  /\ pc = "retrieve_finance"
  /\ Call([to |-> "finance_kb", kind |-> "search_top_k",
           query |-> SubqueryOrQuery(finance_subquery, query),
           raised |-> TRUE])
  /\ pc' = AfterRankedFailure
  /\ UNCHANGED <<system, query, decompose_outcome, csv_subquery, finance_subquery,
                 finance_hits, csv_hits, finance_context, csv_context, f_txt,
                 c_txt, exc, result>>
  /\ StepFrame

\* the search without top_k returns n documents
SearchUnranked(n) ==
  /\ pc = "retrieve_finance_fallback"
  /\ Call([to |-> "finance_kb", kind |-> "search",
           query |-> SubqueryOrQuery(finance_subquery, query),
           raised |-> FALSE])
  /\ finance_hits' = Docs(n)
  /\ pc' = "retrieve_csv"
  /\ UNCHANGED <<system, query, decompose_outcome, csv_subquery, finance_subquery, csv_hits,
                 finance_context, csv_context, f_txt, c_txt, exc, result>>
  /\ StepFrame

\* the search without top_k raises too
SearchUnrankedRaises ==
  /\ pc = "retrieve_finance_fallback"
  /\ Call([to |-> "finance_kb", kind |-> "search",
           query |-> SubqueryOrQuery(finance_subquery, query),
           raised |-> TRUE])
  /\ finance_hits' = AfterUnrankedFailure
  /\ pc' = "retrieve_csv"
  /\ UNCHANGED <<system, query, decompose_outcome, csv_subquery, finance_subquery, csv_hits,
                 finance_context, csv_context, f_txt, c_txt, exc, result>>
  /\ StepFrame

\* retrieve_csv_rows, then the guard on the two results and the two context
\* builders
RetrieveCsvRows ==
  /\ pc = "retrieve_csv"
  /\ \E r \in {retrieve_csv_rows(csv_files, SubqueryOrQuery(csv_subquery, query))} :
        /\ Call([to |-> "csv_data_dir", kind |-> "retrieve_csv_rows",
                 query |-> SubqueryOrQuery(csv_subquery, query),
                 raised |-> r.raised])
        /\ IF r.raised
             THEN /\ Return(CaughtError(CSV_EXC), CSV_EXC)
                  /\ UNCHANGED <<csv_hits, finance_context, csv_context>>
           ELSE IF NoEvidence(finance_hits, r.matches)
             THEN /\ Return(NO_EVIDENCE, None)
                  /\ csv_hits' = r.matches
                  /\ UNCHANGED <<finance_context, csv_context>>
           ELSE /\ csv_hits' = r.matches
                /\ finance_context' = build_finance_context(finance_hits)
                /\ csv_context' = build_csv_context(r.matches)
                /\ pc' = "answer_finance"
                /\ UNCHANGED <<exc, result>>
  /\ UNCHANGED <<system, query, decompose_outcome, csv_subquery, finance_subquery,
                 finance_hits, f_txt, c_txt>>
  /\ StepFrame

\* a prompt that is given all the evidence of the run
SourcePrompt_AllEvidence(context, q) ==
  <<"Use ONLY the context provided.", NL, NL, "CONTEXT:", NL>>
    \o finance_context \o <<NL, NL>> \o csv_context
    \o <<NL, NL, "QUERY:", NL>> \o q

\* the prompt of a source agent: fixed text, the context, fixed text, the query
SourcePrompt(context, q) ==
  <<"Use ONLY the context provided.", NL, NL, "CONTEXT:", NL>> \o context
    \o <<NL, NL, "QUERY:", NL>> \o q

\* STEP 3: finance_agent.run(finance_prompt, context=finance_context)
FinanceAnswer(ok) ==
  /\ pc = "answer_finance"
  /\ Call([to |-> "finance_agent", kind |-> "run",
           prompt |-> SourcePrompt(finance_context,
                                   SubqueryOrQuery(finance_subquery, query)),
           prompt_query |-> SubqueryOrQuery(finance_subquery, query),
           context |-> finance_context, raised |-> ~ok])
  /\ IF ok
       THEN /\ f_txt' = <<"finance answer">>
            /\ pc' = "answer_csv"
            /\ UNCHANGED <<exc, result>>
       ELSE /\ Return(CaughtError(FINANCE_AGENT_EXC), FINANCE_AGENT_EXC)
            /\ UNCHANGED f_txt
  /\ UNCHANGED <<system, query, decompose_outcome, csv_subquery, finance_subquery,
                 finance_hits, csv_hits, finance_context, csv_context, c_txt>>
  /\ StepFrame

\* csv_agent.run(csv_prompt, context=csv_context)
CsvAnswer(ok) ==
  /\ pc = "answer_csv"
  /\ Call([to |-> "csv_agent", kind |-> "run",
           prompt |-> SourcePrompt(csv_context, SubqueryOrQuery(csv_subquery, query)),
           prompt_query |-> SubqueryOrQuery(csv_subquery, query),
           context |-> csv_context, raised |-> ~ok])
  /\ IF ok
       THEN /\ c_txt' = <<"csv answer">>
            /\ pc' = "collate"
            /\ UNCHANGED <<exc, result>>
       ELSE /\ Return(CaughtError(CSV_AGENT_EXC), CSV_AGENT_EXC)
            /\ UNCHANGED c_txt
  /\ UNCHANGED <<system, query, decompose_outcome, csv_subquery, finance_subquery,
                 finance_hits, csv_hits, finance_context, csv_context, f_txt>>
  /\ StepFrame

\* STEP 4: team_leader.run(collate_prompt), and the result record
Collate(ok) ==
  /\ pc = "collate"
  /\ Call([to |-> "team_leader", kind |-> "collate",
           prompt |-> CollatePrompt(query, c_txt, f_txt), raised |-> ~ok])
  /\ IF ok
       THEN Return([kind |-> "success",
                    query |-> query,
                    csv_subquery |-> csv_subquery,
                    finance_subquery |-> finance_subquery,
                    csv_agent_response |-> c_txt,
                    finance_agent_response |-> f_txt,
                    team_leader_final_answer |-> <<"final answer">>], None)
       ELSE Return(CaughtError(COLLATE_EXC), COLLATE_EXC)
  /\ UNCHANGED <<system, query, decompose_outcome, csv_subquery, finance_subquery,
                 finance_hits, csv_hits, finance_context, csv_context, f_txt, c_txt>>
  /\ StepFrame

Next ==
  \/ CallSetup
  \/ CreateFinanceKb
  \/ LoadFinanceDocs
  \/ CreateCsvKb
  \/ LoadCsvDocs
  \/ CreateFinanceAgent
  \/ CreateCsvAgent
  \/ CreateTeamLeader
  \/ SetupReturns
  \/ SetupRaises
  \/ \E q \in Queries : AskAgents(q)
  \/ ProcessQuery
  \/ \E outcome \in DecomposeOutcomes : Decompose(outcome)
  \/ \E n \in 0..TOP_K_TEXT : SearchRanked(n)
  \/ SearchRankedRaises
  \/ \E n \in 0..MaxDocs : SearchUnranked(n)
  \/ SearchUnrankedRaises
  \/ RetrieveCsvRows
  \/ \E ok \in BOOLEAN : FinanceAnswer(ok)
  \/ \E ok \in BOOLEAN : CsvAnswer(ok)
  \/ \E ok \in BOOLEAN : Collate(ok)

Spec == Init /\ [][Next]_vars

\* the steps of one run of ask_agents: its code is sequential, so a run whose
\* collaborator calls each return or raise takes its next step
QueryStep ==
  \/ GetCreate
  \/ ProcessQuery
  \/ \E outcome \in DecomposeOutcomes : Decompose(outcome)
  \/ \E n \in 0..TOP_K_TEXT : SearchRanked(n)
  \/ SearchRankedRaises
  \/ \E n \in 0..MaxDocs : SearchUnranked(n)
  \/ SearchUnrankedRaises
  \/ RetrieveCsvRows
  \/ \E ok \in BOOLEAN : FinanceAnswer(ok)
  \/ \E ok \in BOOLEAN : CsvAnswer(ok)
  \/ \E ok \in BOOLEAN : Collate(ok)

\* the directories of Init whose files have a handful of rows
LiveDirectories == Directories \ { <<F_long, F_mixed>> }

InitLive ==
  /\ ParseIdle
  /\ csv_files \in LiveDirectories
  /\ CsvIdle
  /\ SysConstructed
  /\ ChatIdle
  /\ CtxIdle
  /\ RunIdle

\* setup() and process_query with every collaborator call returning or raising
SpecLive == InitLive /\ [][Next]_vars /\ WF_vars(QueryStep)

----------------------------------------------------------------------------
(* Specification SpecSingleton: initialize_system, called again and again,
   interleaved with ask_agents *)

\* the inputs of the runs that are interleaved with other threads
SmallOutcomes ==
  {[kind |-> "raise"],
   [kind |-> "text", lines |-> << <<CSV_PREFIX, SP, "a">>, <<FINANCE_PREFIX, SP, "y">> >>]}

SmallDirectories == { <<>>, <<F_text>> }

\* the steps of a run of ask_agents after its call, on those inputs
RunSteps ==
  \/ GetCreate
  \/ ProcessQuery
  \/ \E outcome \in SmallOutcomes : Decompose(outcome)
  \/ \E n \in {0, 1} : SearchRanked(n)
  \/ SearchRankedRaises
  \/ \E n \in {0, 1} : SearchUnranked(n)
  \/ SearchUnrankedRaises
  \/ RetrieveCsvRows
  \/ \E ok \in BOOLEAN : FinanceAnswer(ok)
  \/ \E ok \in BOOLEAN : CsvAnswer(ok)
  \/ \E ok \in BOOLEAN : Collate(ok)

InitSingleton ==
  /\ ParseIdle
  /\ csv_files \in SmallDirectories
  /\ CsvIdle
  /\ api_key \in BOOLEAN
  /\ SysNew
  /\ ChatIdle
  /\ CtxIdle
  /\ RunIdle

NextSingleton ==
  \/ InitializeSystem
  \/ CallSetup
  \/ CreateFinanceKb
  \/ LoadFinanceDocs
  \/ CreateCsvKb
  \/ LoadCsvDocs
  \/ CreateFinanceAgent
  \/ CreateCsvAgent
  \/ CreateTeamLeader
  \/ SetupReturns
  \/ SetupRaises
  \/ AskAgents(<<"a">>)
  \/ RunSteps

SpecSingleton == InitSingleton /\ [][NextSingleton]_vars

----------------------------------------------------------------------------
(* Specification SpecChat: the chat handler of chatUI over ask_agents *)

\* range(1, 8): the last value of i
ANIMATION_STEPS == 7

\* a message of the chat whose content is a text; the content of the last
\* message becomes the dict ask_agents returned
TextMessage(role, t) == [role |-> role, content |-> [kind |-> "text", text |-> t]]

\* f"Processing{dots}" with dots = "." * ((i % 3) + 1)
Processing(i) == <<"Processing">> \o [k \in 1..((i % 3) + 1) |-> "."]

\* an except clause that shows the bare description
ChatError_Bare(e) == <<e>>

\* f"Error: {str(e)}"
ChatError(e) == <<"Error: ", e>>

\* the system after a setup() that returned True
SysReady ==
  /\ instances = << [NewInstance EXCEPT !.finance_kb = "loaded", !.csv_kb = "loaded",
                                       !.finance_agent = "set", !.csv_agent = "set",
                                       !.team_leader = "set"] >>
  /\ agent_system = 1
  /\ setup_pc = "ready"
  /\ setup_of = 1

InitChat ==
  /\ ParseIdle
  /\ csv_files \in SmallDirectories
  /\ CsvIdle
  /\ api_key \in BOOLEAN
  /\ SysNew \/ (api_key /\ SysReady)
  /\ ChatIdle
  /\ CtxIdle
  /\ RunIdle

\* Gradio calls process_query(query, history) with the value of the Chatbot.
\* A blank query: the two messages are appended and "return history" ends
\* the generator, which has yielded nothing. Otherwise the user message and
\* "Processing." are appended and the history is yielded.
ChatSubmit(q) ==
  /\ h_pc \in {"idle", "done"}
  /\ Len(chatbot) < 2 * MaxChats
  /\ h_query' = q
  /\ h_len' = Len(chatbot)
  /\ IF Strip(q) = <<>>
       THEN /\ history' = chatbot \o << TextMessage("user", q),
                                        TextMessage("assistant",
                                                    <<"Please enter a valid query.">>) >>
            /\ h_pc' = "done"
            /\ h_i' = 0
            /\ h_yields' = 0
            /\ UNCHANGED chatbot
       ELSE /\ history' = chatbot \o << TextMessage("user", q),
                                        TextMessage("assistant", <<"Processing", ".">>) >>
            /\ chatbot' = history'
            /\ h_pc' = "animate"
            /\ h_i' = 1
            /\ h_yields' = 1
  /\ OthersFrame("chat")

\* one iteration of the loop: the content is replaced and the history yielded
ChatAnimate ==
  /\ h_pc = "animate"
  /\ history' = [history EXCEPT ![Len(history)].content =
                                   [kind |-> "text", text |-> Processing(h_i)]]
  /\ chatbot' = history'
  /\ h_yields' = h_yields + 1
  /\ h_i' = h_i + 1
  /\ h_pc' = IF h_i = ANIMATION_STEPS THEN "ask" ELSE "animate"
  /\ UNCHANGED <<h_query, h_len>>
  /\ OthersFrame("chat")

\* "response = ask_agents(query)" is called
ChatAsk ==
  /\ h_pc = "ask"
  /\ AskAgentsCall(h_query)
  /\ h_pc' = "wait"
  /\ UNCHANGED <<chatbot, h_query, history, h_len, h_i, h_yields>>

\* ask_agents has returned or raised: the content is replaced by the dict or
\* by the error text, and the history is yielded for the last time
ChatReply ==
  /\ h_pc = "wait"
  /\ pc \in {"returned", "raised"}
  /\ history' = [history EXCEPT ![Len(history)].content =
                   IF pc = "returned" THEN result
                                      ELSE [kind |-> "text", text |-> ChatError(exc)]]
  /\ chatbot' = history'
  /\ h_yields' = h_yields + 1
  /\ h_pc' = "done"
  /\ UNCHANGED <<h_query, h_len, h_i>>
  /\ OthersFrame("chat")

NextChat ==
  \/ \E q \in { <<"a">>, <<SP, "a">>, <<>>, <<SP>> } : ChatSubmit(q)
  \/ ChatAnimate
  \/ ChatAsk
  \/ RunSteps
  \/ ChatReply

SpecChat == InitChat /\ [][NextChat]_vars

----------------------------------------------------------------------------
(* Claims about decompose_query, checked under SpecParse *)

\* line is "<prefix> <value>": the prefix, one space, the value
IsPrefixLine(line, pre) == Len(line) >= 2 /\ line[1] = pre /\ line[2] = SP

ValueOf(line) == SubSeq(line, 3, Len(line))

\* no line after the i-th starts with the prefix
LastWith(i, pre) ==
  \A k \in (i + 1)..Len(p_lines) : ~StartsWith(p_lines[k], pre)

\* the value has no surrounding whitespace and does not contain the prefix
CleanValue(v, pre) == Strip(v) = v /\ ~Contains(v, pre)

----------------------------------------------------------------------------
(* Claims about process_query, checked under Spec *)

\* the calls of this run made to one collaborator, in order
CallsTo(to) == SelectSeq(calls, LAMBDA c : c.to = to)

CallsOfKind(to, kind) == SelectSeq(calls, LAMBDA c : c.to = to /\ c.kind = kind)

\* retrieve_csv_rows has returned a mapping in this run
CsvReturned ==
  \E i \in 1..Len(calls) : calls[i].to = "csv_data_dir" /\ ~calls[i].raised

\* s ends with q
EndsWith(s, q) ==
  Len(s) >= Len(q) /\ SubSeq(s, Len(s) - Len(q) + 1, Len(s)) = q

\* C1: when the text retrieval result and the tabular mapping are both empty,
\* process_query has returned the no-evidence error, no source agent was
\* called, no collation call was made, and the only model call is the
\* decomposition call.
C1_NoEvidence ==
  (CsvReturned /\ finance_hits = <<>> /\ csv_hits = <<>>) =>
    /\ pc = "returned"
    /\ result = NO_EVIDENCE
    /\ CallsTo("finance_agent") = <<>>
    /\ CallsTo("csv_agent") = <<>>
    /\ CallsOfKind("team_leader", "collate") = <<>>
    /\ Len(CallsTo("team_leader")) = 1

\* C1 witness: both searches failed, the directory held a file without a
\* matching row, and the run ended in the no-evidence error
C1_Witness ==
  /\ pc = "returned"
  /\ result = NO_EVIDENCE
  /\ csv_files = <<F_text>>
  /\ Len(CallsTo("finance_kb")) = 2
  /\ CsvReturned

Effective(sub) == IF sub = <<>> THEN query ELSE sub

\* C3: the query string given to each retriever and the query string at the
\* end of each answering prompt is the original query when the decomposer's
\* field is empty, and the sub-query itself otherwise; it is the empty string
\* only if the original query is.
C3_Fallback ==
  \A i \in 1..Len(calls) :
    /\ calls[i].to = "finance_kb" =>
         /\ calls[i].query = Effective(finance_subquery)
         /\ (query # <<>> => calls[i].query # <<>>)
    /\ calls[i].to = "csv_data_dir" =>
         /\ calls[i].query = Effective(csv_subquery)
         /\ (query # <<>> => calls[i].query # <<>>)
    /\ calls[i].to = "finance_agent" =>
         /\ EndsWith(calls[i].prompt, <<"QUERY:", NL>> \o Effective(finance_subquery))
         /\ (query # <<>> => calls[i].prompt[Len(calls[i].prompt)] # NL)
    /\ calls[i].to = "csv_agent" =>
         /\ EndsWith(calls[i].prompt, <<"QUERY:", NL>> \o Effective(csv_subquery))
         /\ (query # <<>> => calls[i].prompt[Len(calls[i].prompt)] # NL)

\* C3 witness: the reply had no csv line, so the csv side ran on the original
\* query while the finance side ran on its sub-query, up to the answering calls
C3_Witness ==
  /\ query = <<"a">>
  /\ decompose_outcome.kind = "text"
  /\ csv_subquery = <<>>
  /\ finance_subquery = <<"y">>
  /\ Len(CallsTo("csv_agent")) = 1
  /\ CallsTo("csv_agent")[1].prompt_query = <<"a">>
  /\ CallsTo("finance_agent")[1].prompt_query = <<"y">>

\* the reply has no line starting with a recognised prefix
Malformed(outcome) ==
  /\ outcome.kind = "text"
  /\ \A k \in 1..Len(outcome.lines) :
       ~StartsWith(outcome.lines[k], CSV_PREFIX)
         /\ ~StartsWith(outcome.lines[k], FINANCE_PREFIX)

DecomposeFailed ==
  decompose_outcome.kind \in {"raise", "nonstring"} \/ Malformed(decompose_outcome)

\* both retrievals of this run were started
RetrievalReached == CallsTo("finance_kb") # <<>> /\ CallsTo("csv_data_dir") # <<>>

\* C5 as stated: after any failure of the decomposition call (an exception, a
\* timeout, a reply with neither prefix line) decompose_query has returned
\* the original query for both sub-queries.
C5_AsStated ==
  DecomposeFailed => (csv_subquery = query /\ finance_subquery = query)

\* C5 amended: a decomposition call that raises (an exception, a timeout, a
\* content that is no string) makes decompose_query return the original query
\* for both sub-queries; a reply with neither recognised prefix line makes it
\* return the empty string for both, and process_query passes the original
\* query to both retrievers; in each case process_query goes on to the
\* retrieval step.
C5_Degrades ==
  DecomposeFailed =>
    /\ decompose_outcome.kind \in {"raise", "nonstring"}
         => (csv_subquery = query /\ finance_subquery = query)
    /\ Malformed(decompose_outcome)
         => (csv_subquery = <<>> /\ finance_subquery = <<>>)
    /\ pc # "decompose"
    /\ pc = "returned" => RetrievalReached
    /\ \A i \in 1..Len(calls) :
         calls[i].to \in {"finance_kb", "csv_data_dir"} => calls[i].query = query

\* C5 witness: the reply had neither prefix line and the run went on to
\* SUCCESS on the original query
C5_Witness ==
  /\ Malformed(decompose_outcome)
  /\ query = <<"a">>
  /\ csv_subquery = <<>>
  /\ pc = "returned"
  /\ result.kind = "success"

\* C7: retrieve_finance_docs never raises: at most two searches are made, the
\* first with top_k; the search without top_k is made exactly once, and only
\* after the search with top_k raised; when both raise the result is the
\* empty sequence and the run goes on to the tabular retrieval.
C7_Fallback ==
  LET fk == CallsTo("finance_kb")
  IN /\ Len(fk) <= 2
     /\ fk # <<>> => fk[1].kind = "search_top_k"
     /\ Len(fk) = 2 => (fk[1].raised /\ fk[2].kind = "search")
     /\ (fk # <<>> /\ fk[1].raised /\ pc # "retrieve_finance_fallback") => Len(fk) = 2
     /\ (Len(fk) = 2 /\ fk[2].raised) => finance_hits = <<>>
     /\ (fk # <<>> /\ pc = "returned") => CallsTo("csv_data_dir") # <<>>
     /\ exc \in {None, CSV_EXC, FINANCE_AGENT_EXC, CSV_AGENT_EXC, COLLATE_EXC}

\* C7 witness: both searches raised and the run stands at the tabular retrieval
C7_Witness ==
  LET fk == CallsTo("finance_kb")
  IN /\ Len(fk) = 2
     /\ fk[1].raised
     /\ fk[2].raised
     /\ finance_hits = <<>>
     /\ pc = "retrieve_csv"

\* C8 as stated: retrieve_finance_docs returns at most TOP_K_TEXT documents,
\* also when the result comes from the search without top_k.
C8_AsStated == Len(finance_hits) <= TOP_K_TEXT

----------------------------------------------------------------------------
(* Claims about retrieve_csv_rows, checked under SpecCsv *)

\* the files of the directory that at least the lenient read can parse
Parseable(files) == SelectSeq(files, LAMBDA f : ReadCsv(f).ok)

\* the entries of the returned mapping for file name n
EntriesOf(n) == SelectSeq(x_result.matches, LAMBDA e : e.fname = n)

\* the indices of the rows of f that the active mode selects
Selected(f, q) ==
  IF DateLike(q) # None
    THEN DateMatch(ReadCsv(f), DateLike(q), 1)
    ELSE KeywordMatch(ReadCsv(f), Lower(q))

\* C6 as stated: a file that neither read can parse contributes no entry,
\* while every other file of the directory is scanned and its matches are
\* returned (sub-queries that are themselves rejected as patterns set aside).
C6_AsStated ==
  (x_called /\ (DateLike(x_query) # None \/ RegexValid(Lower(x_query)))) =>
    x_result = retrieve_csv_rows(Parseable(csv_files), x_query)

\* C9: every entry of the returned mapping holds at least one and at most
\* CSV_TOP_K rows, which are the first selected rows of its file in file
\* order; each file name has at most one entry, and a file without a selected
\* row has none.
C9_Entries ==
  (x_called /\ ~x_result.raised) =>
    /\ \A k \in 1..Len(x_result.matches) :
         LET e == x_result.matches[k]
         IN /\ Len(e.rows) >= 1
            /\ Len(e.rows) <= CSV_TOP_K
            /\ \A a, b \in 1..Len(e.rows) : a < b => e.rows[a].idx < e.rows[b].idx
    /\ \A i \in 1..Len(csv_files) :
         LET f == csv_files[i]
             sel == Selected(f, x_query)
             es == EntriesOf(f.name)
         IN /\ Len(es) <= 1
            /\ (sel = <<>>) <=> (es = <<>>)
            /\ es # <<>> =>
                 /\ Len(es[1].rows) = Min(Len(sel), CSV_TOP_K)
                 /\ \A a \in 1..Len(es[1].rows) :
                      /\ es[1].rows[a].idx = sel[a]
                      /\ es[1].rows[a].cells = ReadCsv(f).rows[sel[a]]

\* C9 witness: the long file has more than CSV_TOP_K selected rows and its
\* entry holds CSV_TOP_K of them, while the other file of the directory has no
\* selected row and no entry
C9_Witness ==
  /\ x_called
  /\ ~x_result.raised
  /\ x_query = <<"a">>
  /\ csv_files = <<F_empty, F_long>>
  /\ Len(Selected(F_long, x_query)) > CSV_TOP_K
  /\ Len(x_result.matches) = 1
  /\ Len(x_result.matches[1].rows) = CSV_TOP_K

\* row i of f has a text-typed column that contains the lower-cased sub-query
\* as a literal substring, case-insensitively
LiteralMatch(f, q, i) ==
  LET df == ReadCsv(f)
  IN \E c \in ObjectCols(df) :
       ~IsNa(df.rows[i][c]) /\ IsSubstring(Lower(q), Lower(df.rows[i][c]))

\* row i of f is among the rows returned for f
Returned(f, i) ==
  \E k \in 1..Len(x_result.matches) :
    /\ x_result.matches[k].fname = f.name
    /\ \E a \in 1..Len(x_result.matches[k].rows) : x_result.matches[k].rows[a].idx = i

\* C10 as stated: in keyword mode a row is matched if and only if one of its
\* text-typed columns contains the lower-cased sub-query as a literal
\* substring, for every sub-query (files of at most CSV_TOP_K rows, so that
\* every matched row is returned).
C10_AsStated ==
  (x_called /\ DateLike(x_query) = None) =>
    \A n \in 1..Len(csv_files) :
      LET f == csv_files[n]
      IN (ReadCsv(f).ok /\ Len(ReadCsv(f).rows) <= CSV_TOP_K) =>
           \A i \in 1..Len(ReadCsv(f).rows) : Returned(f, i) <=> LiteralMatch(f, x_query, i)

----------------------------------------------------------------------------
(* C11: date mode *)

\* column c of f parses, and the parsed value of its row i contains the date
\* extracted from q
DateHit(f, q, c, i) ==
  LET df == ReadCsv(f)
  IN /\ ~DateParseRaises(df, c)
     /\ IsSubstring(<<DateLike(q)>>, ParsedDateStr(df, c, df.rows[i][c]))

\* c is the first column of f, in column order, with a row that hits
FirstDateCol(f, q, c) ==
  LET rows == 1..Len(ReadCsv(f).rows)
  IN /\ \E j \in rows : DateHit(f, q, c, j)
     /\ \A k \in 1..(c - 1) : \A j \in rows : ~DateHit(f, q, k, j)

\* C11: when the sub-query holds a date, the rows returned for a file are
\* exactly the rows whose parsed value in the first column with a hit
\* contains the extracted date; a column whose parse fails is passed over,
\* later columns add nothing, and a row that only the keyword test would
\* select is never returned (files of at most CSV_TOP_K rows, so that every
\* matched row is returned).
C11_DateMode ==
  (x_called /\ DateLike(x_query) # None /\ ~x_result.raised) =>
    \A n \in 1..Len(csv_files) :
      LET f == csv_files[n]
          df == ReadCsv(f)
      IN Len(df.rows) <= CSV_TOP_K =>
           \A i \in 1..Len(df.rows) :
             Returned(f, i) <=>
               \E c \in 1..Len(df.columns) :
                 FirstDateCol(f, x_query, c) /\ DateHit(f, x_query, c, i)

\* C11 witness: in dates.csv the bool column is passed over, the text column
\* is the first with a hit and selects row 3 alone, although the two later
\* columns hold the date in rows 1, 2 and 4
C11_Witness ==
  /\ x_called
  /\ ~x_result.raised
  /\ x_query = <<DATE_ISO>>
  /\ csv_files = <<F_dates>>
  /\ DateParseRaises(ReadCsv(F_dates), 1)
  /\ FirstDateCol(F_dates, x_query, 2)
  /\ DateHit(F_dates, x_query, 3, 1) /\ DateHit(F_dates, x_query, 4, 4)
  /\ \A i \in 1..4 : Returned(F_dates, i) <=> i = 3

----------------------------------------------------------------------------
(* C12: the guard of process_query *)

\* process_query is entered in this step
Entered == pc = "get_return" /\ pc' # "get_return"

\* the step returns the 'not initialized' record and has called no collaborator
Refused == pc' = "returned" /\ result' = NOT_INITIALIZED /\ calls' = <<>>

\* C12 as stated: a process_query entered while setup() has not completed
\* (not called yet, still running, or failed) returns the 'not initialized'
\* error at once, without any collaborator call.
C12_AsStated == [][(Entered /\ setup_pc # "ready") => Refused]_vars

\* C12: a process_query entered on an instance whose team leader has not
\* been created (setup() not called yet, still running or failed before that
\* point) returns the 'not initialized' error at once, without any
\* decomposition, retrieval, answering or collation call.
C12_Guard ==
  [][(Entered /\ instances[agent_system].team_leader = None) => Refused]_vars

\* C12 witness: a query was refused while setup() was running, both knowledge
\* bases loaded and the first agent created, and the refusal made no call
C12_Witness ==
  /\ pc = "returned"
  /\ result = NOT_INITIALIZED
  /\ calls = <<>>
  /\ setup_pc = "running"
  /\ instances[system].csv_kb = "loaded"
  /\ instances[system].finance_agent = "set"
  /\ instances[system].team_leader = None

----------------------------------------------------------------------------
(* C13: evidence from one source only *)

\* an answering call or the collation call of this run raised
AnswerFailed ==
  \E i \in 1..Len(calls) : calls[i].raised /\ calls[i].kind \in {"run", "collate"}

\* both retrievals have returned and exactly one of them holds evidence
OneSource == CsvReturned /\ ((finance_hits = <<>>) # (csv_hits = <<>>))

\* C13: when exactly one source returned evidence and no answering or
\* collation call failed, the run is past the guard and, once returned, has
\* SUCCESS: each answering call was issued once, the call of the empty source
\* with the empty string as context and the other with a non-empty context,
\* collation was called once, and the result carries the query, both
\* sub-queries, both sub-answers and the final answer.
C13_OneSource ==
  (OneSource /\ ~AnswerFailed) =>
    /\ pc \in {"answer_finance", "answer_csv", "collate", "returned"}
    /\ pc = "returned" =>
         /\ result.kind = "success"
         /\ Len(CallsTo("finance_agent")) = 1
         /\ Len(CallsTo("csv_agent")) = 1
         /\ Len(CallsOfKind("team_leader", "collate")) = 1
         /\ (CallsTo("finance_agent")[1].context = <<>>) <=> (finance_hits = <<>>)
         /\ (CallsTo("csv_agent")[1].context = <<>>) <=> (csv_hits = <<>>)
         /\ result.query = query
         /\ result.csv_subquery = csv_subquery
         /\ result.finance_subquery = finance_subquery
         /\ result.finance_agent_response = <<"finance answer">>
         /\ result.csv_agent_response = <<"csv answer">>
         /\ result.team_leader_final_answer = <<"final answer">>

\* C13 witness: no csv file, the text search returned documents, and the run
\* ended in SUCCESS after a tabular answering call with an empty context
C13_Witness ==
  /\ pc = "returned"
  /\ csv_files = <<>>
  /\ OneSource
  /\ finance_hits # <<>>
  /\ result.kind = "success"
  /\ CallsTo("csv_agent")[1].context = <<>>

----------------------------------------------------------------------------
(* C14: the contexts are bounded, checked under SpecCtx *)

\* the characters of d's text that its block may hold
Kept(d) == Min(Len(d.text), SNIPPET_CHARS)

\* the length of d's block: the prefix, the name, the closing, the snippet
BlockLen(d) == 3 + Kept(d)

\* where the block of the i-th document starts in the joined context
RECURSIVE Offset(_, _)
Offset(docs, i) ==
  IF i = 1 THEN 0 ELSE Offset(docs, i - 1) + BlockLen(docs[i - 1]) + 2

Count(seq, tok) == Cardinality({i \in 1..Len(seq) : seq[i] = tok})

RECURSIVE SumRows(_)
SumRows(matches) ==
  IF matches = <<>> THEN 0
  ELSE Min(Len(Head(matches).rows), PREVIEW_ROWS) + SumRows(Tail(matches))

\* C14: the finance context is, block after block, "[source: <name>] "
\* followed by at most the first SNIPPET_CHARS characters of the document's
\* text with every newline replaced by a space, consecutive blocks separated
\* by a blank line, so that the only newlines of the context are those of the
\* separators; the csv context holds, for every file, the header line and at
\* most the first PREVIEW_ROWS matched rows, and no later row.
C14_Bounded ==
  /\ "finance" \in b_built =>
       LET ctx == b_finance_context
           n == Len(b_docs)
       IN /\ Len(ctx) = IF n = 0 THEN 0 ELSE Offset(b_docs, n) + BlockLen(b_docs[n])
          /\ Count(ctx, NL) = IF n = 0 THEN 0 ELSE 2 * (n - 1)
          /\ Count(ctx, "Z") = 0
          /\ \A i \in 1..n :
               LET d == b_docs[i]
                   o == Offset(b_docs, i)
               IN /\ ctx[o + 1] = "[source: "
                  /\ ctx[o + 2] = (IF d.source = None THEN "doc_" \o ToString(i - 1)
                                   ELSE d.source)
                  /\ ctx[o + 3] = "] "
                  /\ \A j \in 1..Kept(d) :
                       ctx[o + 3 + j] = (IF d.text[j] = NL THEN SP ELSE d.text[j])
                  /\ i < n => (ctx[o + BlockLen(d) + 1] = NL /\ ctx[o + BlockLen(d) + 2] = NL)
  /\ "csv" \in b_built =>
       LET ctx == b_csv_context
           n == Len(b_matches)
       IN /\ Count(ctx, "first") = SumRows(b_matches)
          /\ Count(ctx, "later") = 0
          /\ Count(ctx, NL) = IF n = 0 THEN 0 ELSE 4 * n + SumRows(b_matches) + 2 * (n - 1)
          /\ Count(ctx, "[CSV: ") = n

\* C14 witness: both builders have run, on a document longer than
\* SNIPPET_CHARS with a newline inside the snippet followed by another
\* document, and on a mapping with more than PREVIEW_ROWS rows for a file
C14_Witness ==
  /\ b_built = {"finance", "csv"}
  /\ Len(b_docs) = 2
  /\ Len(b_docs[1].text) > SNIPPET_CHARS
  /\ b_docs[1].text[3] = NL
  /\ b_finance_context[6] = SP
  /\ Len(b_matches) = 2
  /\ Len(b_matches[1].rows) > PREVIEW_ROWS
  /\ Count(b_csv_context, "first") = PREVIEW_ROWS + Min(Len(b_matches[2].rows), PREVIEW_ROWS)

----------------------------------------------------------------------------
(* C15: termination, checked under SpecLive *)

\* a run of process_query is under way
Running == pc \notin {"idle", "returned", "raised"}

\* some collaborator call of this run raised (a timeout is such a raise)
SomeCallRaised == \E i \in 1..Len(calls) : calls[i].raised

\* the tabular retrieval, an answering call or the collation call raised
StepRaised ==
  \E i \in 1..Len(calls) :
    calls[i].raised /\ calls[i].kind \in {"retrieve_csv_rows", "run", "collate"}

IsCaughtRecord ==
  /\ exc # None
  /\ result = [kind |-> "error", error |-> <<"Error processing query: ", exc>>]

\* the outcomes the result of a returned run falls under
OutcomesOf ==
  {k \in {"success", "no_evidence", "not_initialized", "caught"} :
     \/ k = "success" /\ result.kind = "success"
     \/ k = "no_evidence" /\ result = NO_EVIDENCE
     \/ k = "not_initialized" /\ result = NOT_INITIALIZED
     \/ k = "caught" /\ IsCaughtRecord}

\* C15 as stated, its part on final states: a returned run has exactly one of
\* the four outcomes, and a run in which a collaborator call timed out has the
\* caught-exception error record.
C15_AsStated ==
  pc = "returned" =>
    /\ Cardinality(OutcomesOf) = 1
    /\ SomeCallRaised => IsCaughtRecord

\* C15: provided each collaborator call returns or raises, every run of
\* process_query returns; a returned run has exactly one of SUCCESS, the
\* no-evidence error, the not-initialized error and the caught-exception
\* error record; it has the caught-exception record exactly when the tabular
\* retrieval, an answering call or the collation call raised (a raise of the
\* decomposition call or of a text search is absorbed and the run goes on).
C15_Terminates ==
  /\ [](pc = "returned" =>
          /\ Cardinality(OutcomesOf) = 1
          /\ StepRaised <=> IsCaughtRecord)
  /\ (Running ~> pc = "returned")

\* C15 witness: the decomposition call and the first search raised and were
\* absorbed, then the collation call raised and the run returned the
\* caught-exception record
C15_Witness ==
  /\ pc = "returned"
  /\ exc = COLLATE_EXC
  /\ IsCaughtRecord
  /\ CallsTo("team_leader")[1].raised
  /\ CallsTo("finance_kb")[1].raised
  /\ Len(calls) >= 6

----------------------------------------------------------------------------
(* C16: the order of the steps *)

\* the place of a collaborator call in the order of process_query
StepOf(c) ==
  CASE c.kind = "decompose" -> 1
    [] c.kind = "search_top_k" -> 2
    [] c.kind = "search" -> 3
    [] c.kind = "retrieve_csv_rows" -> 4
    [] c.to = "finance_agent" -> 5
    [] c.to = "csv_agent" -> 6
    [] c.kind = "collate" -> 7

\* a call of step n was issued before the i-th call
Before(i, n) == \E k \in 1..(i - 1) : StepOf(calls[k]) = n

\* C16: within a run the calls are issued in the order decomposition, text
\* search (with its one retry), tabular retrieval, text answering, tabular
\* answering, collation, none of them twice; a retrieval is preceded by the
\* decomposition, an answering call by both retrievals and by a guard that
\* found evidence, the collation by both answering calls; and after a
\* retrieval, an answering call or the collation raised no further call is
\* issued and the run has returned.
C16_Order ==
  /\ \A i, k \in 1..Len(calls) : i < k => StepOf(calls[i]) < StepOf(calls[k])
  /\ \A i \in 1..Len(calls) :
       /\ StepOf(calls[i]) \in {2, 4} => Before(i, 1)
       /\ StepOf(calls[i]) = 3 => Before(i, 2)
       /\ StepOf(calls[i]) \in {5, 6} =>
            /\ Before(i, 2) /\ Before(i, 4)
            /\ ~(finance_hits = <<>> /\ csv_hits = <<>>)
       /\ StepOf(calls[i]) = 6 => Before(i, 5)
       /\ StepOf(calls[i]) = 7 => (Before(i, 5) /\ Before(i, 6))
       /\ (calls[i].raised /\ StepOf(calls[i]) >= 4) =>
            (i = Len(calls) /\ pc = "returned" /\ result.kind = "error")

\* C16 witness: a run that issued all seven calls, the first search having
\* raised, and returned SUCCESS
C16_Witness ==
  /\ pc = "returned"
  /\ result.kind = "success"
  /\ Len(calls) = 7
  /\ calls[2].raised
  /\ StepOf(calls[7]) = 7

----------------------------------------------------------------------------
(* C17: context isolation *)

\* the first token of every block of the text context, and of the tabular one
FINANCE_MARK == "[source: "
CSV_MARK == "[CSV: "

\* s holds the non-empty sequence t as a contiguous part
Holds(s, t) == t # <<>> /\ IsSubstring(t, s)

PROMPT_HEAD == <<"Use ONLY the context provided.", NL, NL, "CONTEXT:", NL>>

\* the calls of the run whose prompt or context argument holds t
Consumers(t) ==
  {i \in 1..Len(calls) :
     \/ calls[i].kind \in {"run", "collate"} /\ Holds(calls[i].prompt, t)
     \/ calls[i].kind = "run" /\ Holds(calls[i].context, t)}

\* C17: the text-answering call is given the finance context as its context
\* and, in its prompt, the fixed head, the finance context and the query part,
\* with nothing of the tabular context in either; the tabular-answering call
\* likewise with the tabular context alone; the collation prompt holds the
\* original query and the two sub-answers and neither context; so each
\* non-empty context is consumed by exactly one call.
C17_Isolation ==
  \A i \in 1..Len(calls) :
    LET c == calls[i]
    IN /\ c.to = "finance_agent" =>
            /\ c.context = finance_context
            /\ c.prompt = PROMPT_HEAD \o finance_context
                            \o <<NL, NL, "QUERY:", NL>> \o c.prompt_query
            /\ Count(c.prompt, CSV_MARK) = 0 /\ Count(c.context, CSV_MARK) = 0
            /\ ~Holds(c.prompt, csv_context) /\ ~Holds(c.context, csv_context)
            /\ finance_context # <<>> => Consumers(finance_context) = {i}
       /\ c.to = "csv_agent" =>
            /\ c.context = csv_context
            /\ c.prompt = PROMPT_HEAD \o csv_context
                            \o <<NL, NL, "QUERY:", NL>> \o c.prompt_query
            /\ Count(c.prompt, FINANCE_MARK) = 0 /\ Count(c.context, FINANCE_MARK) = 0
            /\ ~Holds(c.prompt, finance_context) /\ ~Holds(c.context, finance_context)
            /\ csv_context # <<>> => Consumers(csv_context) = {i}
       /\ c.kind = "collate" =>
            /\ Holds(c.prompt, <<"Original Query: ">> \o query \o <<NL>>)
            /\ Holds(c.prompt, <<"CSV Agent Response:", NL>> \o c_txt \o <<NL>>)
            /\ Holds(c.prompt, <<"Finance Agent Response:", NL>> \o f_txt \o <<NL>>)
            /\ Count(c.prompt, FINANCE_MARK) = 0 /\ Count(c.prompt, CSV_MARK) = 0
            /\ ~Holds(c.prompt, finance_context) /\ ~Holds(c.prompt, csv_context)

\* C17 witness: both sources returned evidence, both answering calls and the
\* collation call were made, each context going to its own agent
C17_Witness ==
  /\ pc = "returned"
  /\ result.kind = "success"
  /\ Count(finance_context, FINANCE_MARK) >= 2
  /\ Count(csv_context, CSV_MARK) >= 2
  /\ Consumers(finance_context) = {Len(calls) - 2}
  /\ Consumers(csv_context) = {Len(calls) - 1}

----------------------------------------------------------------------------
(* C19: process_query is stateless *)

\* this step is a step of process_query
RunStep == pc \notin {"idle", "returned", "raised", "get_create"} /\ pc' # pc

\* the result the replies of this run determine: the guard's refusal when no
\* call was made, the caught-exception record when the last call is a step
\* that raised, the no-evidence error when no answering call was made, and
\* otherwise the success record over the query, the sub-queries parsed from
\* the decomposition reply and the three answers
ResultFrom(q, log, reply) ==
  IF log = <<>> THEN NOT_INITIALIZED
  ELSE IF log[Len(log)].raised /\ StepOf(log[Len(log)]) >= 4
    THEN [kind |-> "error",
          error |-> <<"Error processing query: ",
                      CASE StepOf(log[Len(log)]) = 4 -> CSV_EXC
                        [] StepOf(log[Len(log)]) = 5 -> FINANCE_AGENT_EXC
                        [] StepOf(log[Len(log)]) = 6 -> CSV_AGENT_EXC
                        [] StepOf(log[Len(log)]) = 7 -> COLLATE_EXC>>]
  ELSE IF StepOf(log[Len(log)]) = 4 THEN NO_EVIDENCE
  ELSE [kind |-> "success",
        query |-> q,
        csv_subquery |-> decompose_query(q, reply)[1],
        finance_subquery |-> decompose_query(q, reply)[2],
        csv_agent_response |-> <<"csv answer">>,
        finance_agent_response |-> <<"finance answer">>,
        team_leader_final_answer |-> <<"final answer">>]

\* C19: no step of process_query changes a field of an AgentSystem (the
\* knowledge bases, the agents, TOP_K_TEXT, CSV_TOP_K, the data directories),
\* the module global or the files of the data directory; and the result of a
\* returned run is determined by its query and by what the collaborators
\* replied during the run.
C19_Frame ==
  /\ [][RunStep => (instances' = instances /\ agent_system' = agent_system
                      /\ csv_files' = csv_files)]_vars
  /\ [](pc = "returned" => result = ResultFrom(query, calls, decompose_outcome))

\* C19 witness: a run has returned SUCCESS and the instance that served it
\* has the fields setup() gave it
C19_Witness ==
  /\ pc = "returned"
  /\ result.kind = "success"
  /\ result.query = <<"z">>
  /\ instances[system] =
       [NewInstance EXCEPT !.finance_kb = "loaded", !.csv_kb = "loaded",
                           !.finance_agent = "set", !.csv_agent = "set",
                           !.team_leader = "set"]

----------------------------------------------------------------------------
(* C18: queries during (re-)initialization, checked under SpecSingleton *)

\* both knowledge bases of the instance are loaded and its three agents created
Complete(inst) ==
  /\ inst.finance_kb = "loaded"
  /\ inst.csv_kb = "loaded"
  /\ inst.finance_agent = "set"
  /\ inst.csv_agent = "set"
  /\ inst.team_leader = "set"

\* C18: however the steps of initialize_system, called once or again, are
\* interleaved with a run of ask_agents, the run either has returned the
\* 'not initialized' error without any call, or it is served by an instance
\* whose knowledge bases are loaded and whose agents are created, from its
\* first retrieval to its return: no retrieval reads a knowledge base that is
\* still being loaded.
C18_Interleaving ==
  /\ (pc = "returned" /\ result = NOT_INITIALIZED) => calls = <<>>
  /\ (Running /\ pc # "get_return" /\ pc # "get_create") => Complete(instances[system])
  /\ (pc = "returned" /\ result # NOT_INITIALIZED) => Complete(instances[system])
  /\ calls # <<>> => Complete(instances[system])

\* C18 witness: a run stands at its tabular retrieval on the first instance,
\* which is complete, while a second initialize_system has replaced the global
\* and is loading the text knowledge base of the second instance
C18_Witness ==
  /\ pc = "retrieve_csv"
  /\ system = 1
  /\ agent_system = 2
  /\ setup_pc = "running"
  /\ instances[2].finance_kb = "created"
  /\ Complete(instances[1])

----------------------------------------------------------------------------
(* C20: the chat handler on a non-blank query, checked under SpecChat *)

\* C20: when the handler has finished a query that is not blank, it has
\* yielded at least once and the last history it yielded holds the messages
\* of the input history followed by exactly two more: the user message with
\* the query, and one assistant message whose content is the record
\* ask_agents returned or, when ask_agents raised (the AgentSystem could not
\* be constructed), a text that begins with "Error: " and goes on with the
\* description of the exception.
C20_NonBlank ==
  (h_pc = "done" /\ Strip(h_query) # <<>>) =>
    /\ h_yields = ANIMATION_STEPS + 2
    /\ chatbot = history
    /\ Len(chatbot) = h_len + 2
    /\ chatbot[h_len + 1] = [role |-> "user", content |-> [kind |-> "text", text |-> h_query]]
    /\ chatbot[h_len + 2].role = "assistant"
    /\ pc \in {"returned", "raised"}
    /\ pc = "returned" =>
         /\ result.kind \in {"success", "error"}
         /\ chatbot[h_len + 2].content = result
    /\ pc = "raised" =>
         /\ exc # None
         /\ chatbot[h_len + 2].content = [kind |-> "text", text |-> <<"Error: ", exc>>]

\* C20 witness: the second query of a chat was answered with the error text,
\* the AgentSystem having no API key to be constructed with
C20_Witness ==
  /\ h_pc = "done"
  /\ Strip(h_query) # <<>>
  /\ h_len = 2
  /\ pc = "raised"
  /\ Len(chatbot) = 4
  /\ chatbot[4].content.kind = "text"
  /\ chatbot[4].content.text[1] = "Error: "

----------------------------------------------------------------------------
(* C21: the chat handler on a blank query, checked under SpecChat *)

\* C21 as stated: when the handler has finished a query that is empty or
\* whitespace only, the history shown by the UI ends with the user message
\* followed by the assistant message "Please enter a valid query.", and
\* ask_agents has not been called for it. The handler is a generator and
\* leaves the blank branch by "return history" before its first yield, so
\* nothing is delivered: the Chatbot keeps the value it had.
C21_AsStated ==
  (h_pc = "done" /\ Strip(h_query) = <<>>) =>
    /\ Len(chatbot) >= 2
    /\ chatbot[Len(chatbot) - 1] = TextMessage("user", h_query)
    /\ chatbot[Len(chatbot)] = TextMessage("assistant", <<"Please enter a valid query.">>)

----------------------------------------------------------------------------
(* C22: the life of the global instance, checked under SpecSingleton *)

\* setup was run on instance i and ended before its team leader was created
FailedEarly(i) ==
  /\ instances[i].finance_kb # None
  /\ instances[i].team_leader = None
  /\ setup_of # i

\* the guard of process_query is evaluated in this step
GuardStep == pc = "get_return" /\ pc' # "get_return"

====
